---- MODULE Spec2Model ----
(***************************************************************************)
(* ldbcache: an LRU cache (pylru.lrucache) in RAM whose evicted entries    *)
(* are moved to a LevelDB store; a second lrucache (dbcache) remembers     *)
(* which keys are in the store.                                            *)
(*                                                                         *)
(* Keys are the strings '1', '2', ... of the demo, written 1, 2, ...; the  *)
(* order of the integers is LevelDB's key order.  Values are integers, the *)
(* codec is the demo's: marshal = str, unmarshal = int, and a stored       *)
(* record is the sequence of characters str() produces (a digit is its     *)
(* number, '.' is 10).  A negative number stands for a float with one      *)
(* decimal, minus its tenths: -15 is 1.5, which str() writes as '1.5' and  *)
(* int() rejects.                                                          *)
(***************************************************************************)
EXTENDS Integers, Sequences, FiniteSets, TLC

NumKeys == 3

\* the demo: ldbcache('test', 2, 2, str, int, ...) and the keys '1' .. '5'
DemoRamsize == 2
DemoDbsize == 2
DemoKeys == 1..5

\* the capacities a cache is opened with: 1 up to the demo's
MaxRam == DemoRamsize
MaxDb == DemoDbsize

Keys == 1..NumKeys

\* 0 is a key that is no string and no buffer (the integer 0, None)
NonStringKeys == {0}

\* Values are opaque to the cache: two of them tell a stale value from a
\* fresh one, and 18 has a record of two digits.
Values == {9, 18}

\* the float 1.5: a value the demo's codec writes and cannot read back
FloatValues == {-15}

VARIABLES ramcache, dbcache, ldb, ramsize, dbsize, last, live, clean, demo, lastset

vars == <<ramcache, dbcache, ldb, ramsize, dbsize, last, live, clean, demo, lastset>>

-----------------------------------------------------------------------------
(* The codec of the demo: str on integers and floats, int on strings.      *)

RECURSIVE str(_)
str(n) ==
    IF n < 0 THEN str((-n) \div 10) \o <<10, (-n) % 10>>
    ELSE IF n < 10 THEN <<n>> ELSE Append(str(n \div 10), n % 10)

\* int(s) raises ValueError: s has a character that is no digit
intRaises(s) == \E i \in 1..Len(s) : s[i] \notin 0..9

RECURSIVE int(_)
int(s) == IF Len(s) = 1 THEN s[1] ELSE 10 * int(SubSeq(s, 1, Len(s) - 1)) + s[Len(s)]

marshal(val) == str(val)

unmarshal(data) == int(data)

-----------------------------------------------------------------------------
(* pylru.lrucache: a sequence of entries, most recently used first.        *)

Entry(key, value) == [key |-> key, value |-> value]

LruKeys(c) == {c[i].key : i \in 1..Len(c)}

LruHas(c, key) == key \in LruKeys(c)

LruIndex(c, key) == CHOOSE i \in 1..Len(c) : c[i].key = key

LruPeek(c, key) == c[LruIndex(c, key)].value

LruRemove(c, key) == SelectSeq(c, LAMBDA e : e.key # key)

\* the list after lrucache.__getitem__ / the overwriting __setitem__: mtf
LruTouch(c, key, value) == <<Entry(key, value)>> \o LruRemove(c, key)

\* the keys in iteration order (lrucache.__iter__)
LruKeySeq(c) == [i \in 1..Len(c) |-> c[i].key]

-----------------------------------------------------------------------------
(* LevelDB: a function from the stored keys to their records.              *)

LdbPut(db, key, data) == [k \in (DOMAIN db) \cup {key} |-> IF k = key THEN data ELSE db[k]]

LdbDelete(db, key) == [k \in (DOMAIN db) \ {key} |-> db[k]]

LdbHas(db, key) == key \in DOMAIN db

EmptyLdb == [k \in {} |-> <<>>]

\* RangeIter(''): the stored keys in ascending order
RECURSIVE SortedKeys(_)
SortedKeys(S) ==
    IF S = {} THEN <<>>
    ELSE LET m == CHOOSE x \in S : \A y \in S : x <= y
         IN <<m>> \o SortedKeys(S \ {m})

-----------------------------------------------------------------------------
(* A cache is st = [ram, db, ldb, ramsize, dbsize, lost, putfails,         *)
(* raised]: the two lrucaches, the store, the two capacities, the keys     *)
(* whose records the dbcache's eviction has deleted since the operation    *)
(* began, whether the store rejects writes during the operation, and the   *)
(* exception that is propagating ("": none).                               *)

Cur == [ram |-> ramcache, db |-> dbcache, ldb |-> ldb,
        ramsize |-> ramsize, dbsize |-> dbsize, lost |-> {},
        putfails |-> FALSE, raised |-> ""]

\* the cache during an operation in which ldb.Put raises
StoreFailing == [Cur EXCEPT !.putfails = TRUE]

\* self.ldb.Put(key, data)
Put(st, key, data) ==
    IF st.putfails THEN [st EXCEPT !.raised = "LevelDBError"]
    ELSE [st EXCEPT !.ldb = LdbPut(st.ldb, key, data)]

\* an eviction hook of the dbcache that leaves the record in the store
onRemoveFromDB_keepRecord(st, key) == [st EXCEPT !.lost = st.lost \cup {key}]

onRemoveFromDB(st, key) ==
    [st EXCEPT !.ldb = LdbDelete(st.ldb, key), !.lost = st.lost \cup {key}]

\* a dbcache that never evicts
DbSet_unbounded(st, key) ==
    IF LruHas(st.db, key)
    THEN [st EXCEPT !.db = LruTouch(st.db, key, 1)]
    ELSE [st EXCEPT !.db = <<Entry(key, 1)>> \o st.db]

\* self.dbcache[key] = 1
DbSet(st, key) ==
    IF LruHas(st.db, key)
    THEN [st EXCEPT !.db = LruTouch(st.db, key, 1)]
    ELSE IF Len(st.db) = st.dbsize
         THEN LET node == st.db[Len(st.db)]
                  s1 == onRemoveFromDB(st, node.key)
              IN [s1 EXCEPT !.db = <<Entry(key, 1)>> \o SubSeq(st.db, 1, Len(st.db) - 1)]
         ELSE [st EXCEPT !.db = <<Entry(key, 1)>> \o st.db]

\* the cache after each of the two statements of _onRemoveFromRam
onRemoveFromRamSteps(st, key, val) ==
    LET s1 == DbSet(st, key)                    \* line 37: self.dbcache[key] = 1
        s2 == Put(s1, key, marshal(val))        \* line 38: self.ldb.Put(...)
    IN <<s1, s2>>

onRemoveFromRam(st, key, val) == onRemoveFromRamSteps(st, key, val)[2]

\* a ramcache that drops its last entry before it calls the eviction hook
RamSet_dropFirst(st, key, value) ==
    IF LruHas(st.ram, key)
    THEN [st EXCEPT !.ram = LruTouch(st.ram, key, value)]
    ELSE IF Len(st.ram) = st.ramsize
         THEN LET node == st.ram[Len(st.ram)]
                  s0 == [st EXCEPT !.ram = SubSeq(st.ram, 1, Len(st.ram) - 1)]
                  s1 == onRemoveFromRam(s0, node.key, node.value)
              IN IF s1.raised # "" THEN s1
                 ELSE [s1 EXCEPT !.ram = <<Entry(key, value)>> \o s0.ram]
         ELSE [st EXCEPT !.ram = <<Entry(key, value)>> \o st.ram]

\* self.ramcache[key] = value; an exception of the hook leaves the ramcache
\* as it was
RamSet(st, key, value) ==
    IF LruHas(st.ram, key)
    THEN [st EXCEPT !.ram = LruTouch(st.ram, key, value)]
    ELSE IF Len(st.ram) = st.ramsize
         THEN LET node == st.ram[Len(st.ram)]
                  s1 == onRemoveFromRam(st, node.key, node.value)
              IN IF s1.raised # "" THEN s1
                 ELSE [s1 EXCEPT !.ram = <<Entry(key, value)>> \o SubSeq(st.ram, 1, Len(st.ram) - 1)]
         ELSE [st EXCEPT !.ram = <<Entry(key, value)>> \o st.ram]

\* __len__
len(self) == Len(self.ram) + Len(self.db)

\* __contains__
contains(self, key) == LruHas(self.ram, key) \/ LruHas(self.db, key)

-----------------------------------------------------------------------------
(* The public operations, as functions of the cache self they are called   *)
(* on.  Each yields [st, ok, ret, err]: the cache it leaves, whether it    *)
(* returned, the value it returned (0: none) and the exception it raised   *)
(* ("": none).                                                             *)

Outcome(st, ok, ret) == [st |-> st, ok |-> ok, ret |-> ret, err |-> ""]

Raise(st, err) == [st |-> st, ok |-> FALSE, ret |-> 0, err |-> err]

\* return ret, unless an exception is propagating
Return(st, ret) == IF st.raised = "" THEN Outcome(st, TRUE, ret) ELSE Raise(st, st.raised)

\* isinstance(key, (buffer, basestring))
isString(key) == key \notin NonStringKeys

\* a __getitem__ that returns None for a key it does not find
getitem_noneOnMiss(self, key) ==
    IF LruHas(self.ram, key)
    THEN LET val == LruPeek(self.ram, key)
         IN Outcome([self EXCEPT !.ram = LruTouch(self.ram, key, val)], TRUE, val)
    ELSE IF ~LruHas(self.db, key)
         THEN Outcome(self, TRUE, 0)
         ELSE LET s1 == [self EXCEPT !.db = LruRemove(self.db, key)]
              IN IF ~LdbHas(self.ldb, key)
                 THEN Raise(s1, "KeyError")
                 ELSE LET val == unmarshal(self.ldb[key])
                          s2 == [s1 EXCEPT !.ldb = LdbDelete(s1.ldb, key)]
                      IN Outcome(RamSet(s2, key, val), TRUE, val)

\* a __getitem__ that leaves the record of the key it loads in the store
getitem_keepRecord(self, key) ==
    IF LruHas(self.ram, key)
    THEN LET val == LruPeek(self.ram, key)
         IN Outcome([self EXCEPT !.ram = LruTouch(self.ram, key, val)], TRUE, val)
    ELSE IF ~LruHas(self.db, key)
         THEN Raise(self, "KeyError")
         ELSE LET s1 == [self EXCEPT !.db = LruRemove(self.db, key)]
              IN IF ~LdbHas(self.ldb, key)
                 THEN Raise(s1, "KeyError")
                 ELSE LET val == unmarshal(self.ldb[key])
                      IN Outcome(RamSet(s1, key, val), TRUE, val)

\* a __getitem__ that leaves the key it loads in the dbcache
getitem_keepGhost(self, key) ==
    IF LruHas(self.ram, key)
    THEN LET val == LruPeek(self.ram, key)
         IN Outcome([self EXCEPT !.ram = LruTouch(self.ram, key, val)], TRUE, val)
    ELSE IF ~LruHas(self.db, key)
         THEN Raise(self, "KeyError")
         ELSE IF ~LdbHas(self.ldb, key)
              THEN Raise(self, "KeyError")
              ELSE LET val == unmarshal(self.ldb[key])
                       s2 == [self EXCEPT !.ldb = LdbDelete(self.ldb, key)]
                   IN Outcome(RamSet(s2, key, val), TRUE, val)

\* a __getitem__ that takes the key out of the dbcache only after it has put
\* it in the ramcache
getitem_lateGhostDel(self, key) ==
    IF LruHas(self.ram, key)
    THEN LET val == LruPeek(self.ram, key)
         IN Outcome([self EXCEPT !.ram = LruTouch(self.ram, key, val)], TRUE, val)
    ELSE IF ~LruHas(self.db, key)
         THEN Raise(self, "KeyError")
         ELSE IF ~LdbHas(self.ldb, key)
              THEN Raise(self, "KeyError")
              ELSE LET val == unmarshal(self.ldb[key])
                       s1 == RamSet(self, key, val)
                   IN Outcome([s1 EXCEPT !.db = LruRemove(s1.db, key),
                                         !.ldb = LdbDelete(s1.ldb, key)], TRUE, val)

getitem(self, key) ==
    IF LruHas(self.ram, key)
    THEN LET val == LruPeek(self.ram, key)
         IN Outcome([self EXCEPT !.ram = LruTouch(self.ram, key, val)], TRUE, val)
    ELSE IF ~LruHas(self.db, key)
         THEN Raise(self, "KeyError")                 \* del self.dbcache[key] raises
         ELSE LET s1 == [self EXCEPT !.db = LruRemove(self.db, key)]
              IN IF ~LdbHas(self.ldb, key)
                 THEN Raise(s1, "KeyError")           \* self.ldb.Get(key) raises
                 ELSE IF intRaises(self.ldb[key])
                      THEN Raise(s1, "ValueError")    \* self.unmarshal(data) raises
                      ELSE LET val == unmarshal(self.ldb[key])
                               s2 == [s1 EXCEPT !.ldb = LdbDelete(s1.ldb, key)]
                           IN Return(RamSet(s2, key, val), val)

\* get(key, default): the default instead of KeyError
get(self, key, default) ==
    LET r == getitem(self, key)
    IN IF r.ok THEN r ELSE Outcome(r.st, TRUE, default)

\* a __setitem__ that does not look in the dbcache
setitem_keepGhost(self, key, value) ==
    IF ~isString(key) THEN Raise(self, "TypeError")
    ELSE Outcome(RamSet(self, key, value), TRUE, 0)

\* a __setitem__ that takes a key of the dbcache for cached and leaves it
setitem_skipGhost(self, key, value) ==
    IF ~isString(key) THEN Raise(self, "TypeError")
    ELSE IF LruHas(self.db, key)
         THEN Outcome(self, TRUE, 0)
         ELSE Outcome(RamSet(self, key, value), TRUE, 0)

\* a __setitem__ that takes the key out of the dbcache and leaves its record
setitem_keepRecord(self, key, value) ==
    IF ~isString(key) THEN Raise(self, "TypeError")
    ELSE LET s1 == IF LruHas(self.db, key)
                   THEN [self EXCEPT !.db = LruRemove(self.db, key)]
                   ELSE self
         IN Return(RamSet(s1, key, value), 0)

\* a __setitem__ that takes any object for a key
setitem_anyKey(self, key, value) ==
    LET s1 == IF LruHas(self.db, key)
              THEN [self EXCEPT !.db = LruRemove(self.db, key),
                                !.ldb = LdbDelete(self.ldb, key)]
              ELSE self
    IN Outcome(RamSet(s1, key, value), TRUE, 0)

setitem(self, key, value) ==
    IF ~isString(key) THEN Raise(self, "TypeError")
    ELSE LET s1 == IF LruHas(self.db, key)
                   THEN [self EXCEPT !.db = LruRemove(self.db, key),
                                     !.ldb = LdbDelete(self.ldb, key)]
                   ELSE self
         IN Return(RamSet(s1, key, value), 0)

delitem(self, key) ==
    IF LruHas(self.ram, key)
    THEN Outcome([self EXCEPT !.ram = LruRemove(self.ram, key)], TRUE, 0)
    ELSE \* except KeyError: del self.ramcache[key] again
         IF LruHas(self.ram, key)
         THEN Outcome([self EXCEPT !.ram = LruRemove(self.ram, key),
                                   !.ldb = LdbDelete(self.ldb, key)], TRUE, 0)
         ELSE Raise(self, "KeyError")

RECURSIVE DeleteAll(_, _)
DeleteAll(db, todo) ==
    IF todo = <<>> THEN db ELSE DeleteAll(LdbDelete(db, Head(todo)), Tail(todo))

\* a clear that empties the dbcache and leaves the records (the clear of
\* lines 47-49, which the later definition replaces)
clear_keepRecords(self, ramonly) == Outcome([self EXCEPT !.ram = <<>>, !.db = <<>>], TRUE, 0)

clear(self, ramonly) ==
    IF ramonly
    THEN Outcome([self EXCEPT !.ram = <<>>], TRUE, 0)
    ELSE Outcome([self EXCEPT !.ram = <<>>,
                              !.ldb = DeleteAll(self.ldb, LruKeySeq(self.db)),
                              !.db = <<>>], TRUE, 0)

\* the loop of flush over the items still to be written
RECURSIVE FlushItems(_, _)
FlushItems(st, todo) ==
    IF todo = <<>> \/ st.raised # "" THEN st
    ELSE LET s1 == DbSet(st, Head(todo).key)
             s2 == Put(s1, Head(todo).key, marshal(Head(todo).value))
         IN FlushItems(s2, Tail(todo))

Reverse(seq) == [i \in 1..Len(seq) |-> seq[Len(seq) + 1 - i]]

\* a flush that writes the items from least to most recently used
flush_lruFirst(self) ==
    Outcome([FlushItems(self, Reverse(self.ram)) EXCEPT !.ram = <<>>], TRUE, 0)

\* a flush that empties the ramcache before it writes the items
flush_clearFirst(self) == Outcome([self EXCEPT !.ram = <<>>], TRUE, 0)

\* a flush that does not empty the ramcache
flush_keepRam(self) == Outcome(FlushItems(self, self.ram), TRUE, 0)

flush(self) ==
    LET s1 == FlushItems(self, self.ram)
    IN IF s1.raised # "" THEN Raise(s1, s1.raised)
       ELSE Outcome([s1 EXCEPT !.ram = <<>>], TRUE, 0)

\* the dbcache part of items(): <<key, unmarshal(ldb.Get(key))>> per key
DbItems(self) ==
    [i \in 1..Len(self.db) |-> <<self.db[i].key, unmarshal(self.ldb[self.db[i].key])>>]

\* ldb.Get raises KeyError for a key of the dbcache that has no record
GetRaises(self) == \E i \in 1..Len(self.db) : ~LdbHas(self.ldb, self.db[i].key)

\* unmarshal raises ValueError for a record of a key of the dbcache
DecodeRaises(self) == \E i \in 1..Len(self.db) : intRaises(self.ldb[self.db[i].key])

\* an items() that reads the cache with __getitem__
RECURSIVE GetEach(_, _)
GetEach(self, todo) ==
    IF todo = <<>> THEN self ELSE GetEach(getitem(self, Head(todo)).st, Tail(todo))

items_byGet(self, ramonly) ==
    Outcome(GetEach(self, LruKeySeq(self.ram)), TRUE,
            [i \in 1..Len(self.ram) |-> <<self.ram[i].key, self.ram[i].value>>]
                \o (IF ramonly THEN <<>> ELSE DbItems(self)))

\* list(items(ramonly)): the pairs <<key, value>> in the order yielded
items(self, ramonly) ==
    LET ramitems == [i \in 1..Len(self.ram) |-> <<self.ram[i].key, self.ram[i].value>>]
    IN IF ramonly THEN Outcome(self, TRUE, ramitems)
       ELSE IF GetRaises(self) THEN Raise(self, "KeyError")
            ELSE IF DecodeRaises(self) THEN Raise(self, "ValueError")
            ELSE Outcome(self, TRUE, ramitems \o DbItems(self))

\* list(keys(ramonly))
keys(self, ramonly) ==
    Outcome(self, TRUE, LruKeySeq(self.ram) \o (IF ramonly THEN <<>> ELSE LruKeySeq(self.db)))

\* list(values(ramonly))
values(self, ramonly) ==
    LET ramvalues == [i \in 1..Len(self.ram) |-> self.ram[i].value]
    IN IF ramonly THEN Outcome(self, TRUE, ramvalues)
       ELSE IF GetRaises(self) THEN Raise(self, "KeyError")
            ELSE IF DecodeRaises(self) THEN Raise(self, "ValueError")
            ELSE Outcome(self, TRUE, ramvalues \o [i \in 1..Len(self.db) |-> DbItems(self)[i][2]])

\* the loop of __init__ that restores the keys found in the store
RECURSIVE Restore(_, _)
Restore(st, todo) ==
    IF todo = <<>> THEN st ELSE Restore(DbSet(st, Head(todo)), Tail(todo))

\* an __init__ that never restores the keys of the store
init_skipRestore(dir, newram, newdb, cleardb) ==
    Outcome([ram |-> <<>>, db |-> <<>>, ldb |-> IF cleardb THEN EmptyLdb ELSE dir,
             ramsize |-> newram, dbsize |-> newdb, lost |-> {},
                  putfails |-> FALSE, raised |-> ""], TRUE, 0)

\* __init__(name, ramsize, dbsize, marshal, unmarshal, cleardb) over the store
\* dir that the directory name + '.ldbcache' holds
init(dir, newram, newdb, cleardb) ==
    LET fresh == [ram |-> <<>>, db |-> <<>>, ldb |-> IF cleardb THEN EmptyLdb ELSE dir,
                  ramsize |-> newram, dbsize |-> newdb, lost |-> {},
                  putfails |-> FALSE, raised |-> ""]
    IN Outcome(IF cleardb THEN fresh ELSE Restore(fresh, SortedKeys(DOMAIN dir)), TRUE, 0)

-----------------------------------------------------------------------------
(* State.  last is the operation that changed or could have changed the   *)
(* cache last: its name and whether it returned (FALSE: it raised          *)
(* KeyError).  live, clean and demo are history:                           *)
(* while clean, live is the set of keys set and not deleted since the      *)
(* cache was last empty, and no record was dropped by the dbcache's        *)
(* eviction; demo = n says the operations since the cache was last empty   *)
(* were exactly c['1'] = .., ..., c['n'] = .. (-1: they were not).         *)

Last(op, r) == [op |-> op, ok |-> r.ok, err |-> r.err]

IsEmpty(st) == st.ram = <<>> /\ st.db = <<>> /\ DOMAIN st.ldb = {}

Install(r) ==
    /\ ramcache' = r.st.ram
    /\ dbcache' = r.st.db
    /\ ldb' = r.st.ldb
    /\ ramsize' = r.st.ramsize
    /\ dbsize' = r.st.dbsize

\* history after an operation that may add or remove keys
Track(r, added, removed) ==
    /\ clean' = (clean /\ r.st.lost = {})
    /\ live' = IF clean' THEN (live \cup added) \ removed ELSE {}

\* history: the value of the latest set of each key the cache still holds
\* (0: it holds none)
Recall(r) == [k \in DOMAIN lastset |-> IF contains(r.st, k) THEN lastset[k] ELSE 0]

\* history after an operation that discards entries wholesale
Restart(r) ==
    /\ clean' = IsEmpty(r.st)
    /\ live' = {}
    /\ demo' = IF IsEmpty(r.st) THEN 0 ELSE -1

Init ==
    /\ ramcache = <<>>
    /\ dbcache = <<>>
    /\ ldb = EmptyLdb
    /\ ramsize \in 1..MaxRam
    /\ dbsize \in 1..MaxDb
    /\ last = [op |-> "init", ok |-> TRUE, err |-> ""]
    /\ live = {}
    /\ clean = TRUE
    /\ demo = 0
    /\ lastset = [k \in Keys \cup DemoKeys |-> 0]

SetItem(key, value) ==
    \E r \in {setitem(Cur, key, value)} :
       /\ Install(r)
       /\ last' = Last("set", r)
       /\ Track(r, IF r.ok THEN {key} ELSE {}, {})
       /\ demo' = IF demo >= 0 /\ key = demo + 1 THEN key ELSE -1
       /\ lastset' = IF r.ok THEN [Recall(r) EXCEPT ![key] = value] ELSE Recall(r)

GetItem(key) ==
    \E r \in {getitem(Cur, key)} :
       /\ Install(r)
       /\ last' = Last("getitem", r)
       /\ Track(r, {}, {})
       /\ demo' = -1
       /\ lastset' = Recall(r)

Get(key, default) ==
    \E r \in {get(Cur, key, default)} :
       /\ Install(r)
       /\ last' = Last("get", r)
       /\ Track(r, {}, {})
       /\ demo' = -1
       /\ lastset' = Recall(r)

DelItem(key) ==
    \E r \in {delitem(Cur, key)} :
       /\ Install(r)
       /\ last' = Last("del", r)
       /\ Track(r, {}, IF r.ok THEN {key} ELSE {})
       /\ demo' = -1
       /\ lastset' = Recall(r)

Contains(key) ==
    /\ last' = [op |-> "contains", ok |-> TRUE, err |-> ""]
    /\ UNCHANGED <<ramcache, dbcache, ldb, ramsize, dbsize, live, clean, demo, lastset>>

Items(ramonly) ==
    \E r \in {items(Cur, ramonly)} :
       /\ Install(r)
       /\ last' = Last("items", r)
       /\ UNCHANGED <<live, clean, demo, lastset>>

IterKeys(ramonly) ==
    \E r \in {keys(Cur, ramonly)} :
       /\ Install(r)
       /\ last' = Last("keys", r)
       /\ UNCHANGED <<live, clean, demo, lastset>>

IterValues(ramonly) ==
    \E r \in {values(Cur, ramonly)} :
       /\ Install(r)
       /\ last' = Last("values", r)
       /\ UNCHANGED <<live, clean, demo, lastset>>

Clear(ramonly) ==
    \E r \in {clear(Cur, ramonly)} :
       /\ Install(r)
       /\ last' = Last("clear", r)
       /\ Restart(r)
       /\ lastset' = Recall(r)

Flush ==
    \E r \in {flush(Cur)} :
       /\ Install(r)
       /\ last' = Last("flush", r)
       /\ Track(r, {}, {})
       /\ demo' = -1
       /\ lastset' = Recall(r)

Reopen(newram, newdb, cleardb) ==
    \E r \in {init(ldb, newram, newdb, cleardb)} :
       /\ Install(r)
       /\ last' = Last("init", r)
       /\ Restart(r)
       /\ lastset' = Recall(r)

Next ==
    \/ \E key \in Keys \cup NonStringKeys, value \in Values : SetItem(key, value)
    \/ \E key \in Keys : GetItem(key)
    \/ \E key \in Keys, default \in Values : Get(key, default)
    \/ \E key \in Keys : DelItem(key)
    \/ \E key \in Keys : Contains(key)
    \/ \E ramonly \in BOOLEAN : Items(ramonly)
    \/ \E ramonly \in BOOLEAN : IterKeys(ramonly)
    \/ \E ramonly \in BOOLEAN : IterValues(ramonly)
    \/ \E ramonly \in BOOLEAN : Clear(ramonly)
    \/ Flush
    \/ \E newram \in 1..MaxRam, newdb \in 1..MaxDb, cleardb \in BOOLEAN :
          Reopen(newram, newdb, cleardb)

Spec == Init /\ [][Next]_vars

\* The demo's cache (capacities up to the demo's, keys '1' .. '5') under every
\* operation; a reopened cache keeps its capacities.
DemoInit ==
    /\ Init
    /\ ramsize <= DemoRamsize
    /\ dbsize <= DemoDbsize

DemoNext ==
    \/ \E key \in DemoKeys, value \in Values : SetItem(key, value)
    \/ \E key \in DemoKeys : GetItem(key)
    \/ \E key \in DemoKeys, default \in Values : Get(key, default)
    \/ \E key \in DemoKeys : DelItem(key)
    \/ \E key \in DemoKeys : Contains(key)
    \/ \E ramonly \in BOOLEAN : Items(ramonly)
    \/ \E ramonly \in BOOLEAN : Clear(ramonly)
    \/ Flush
    \/ \E cleardb \in BOOLEAN : Reopen(ramsize, dbsize, cleardb)

DemoSpec == DemoInit /\ [][DemoNext]_vars

\* The cache with a value its codec cannot read back and a store that may
\* reject a write: the operations as before, and set, get and flush during
\* which ldb.Put raises.
SetItemStoreFails(key, value) ==
    \E r \in {setitem(StoreFailing, key, value)} :
       /\ r.err = "LevelDBError"
       /\ Install(r)
       /\ last' = Last("set", r)
       /\ Track(r, {}, {})
       /\ demo' = -1
       /\ lastset' = Recall(r)

GetItemStoreFails(key) ==
    \E r \in {getitem(StoreFailing, key)} :
       /\ r.err = "LevelDBError"
       /\ Install(r)
       /\ last' = Last("getitem", r)
       /\ Track(r, {}, {})
       /\ demo' = -1
       /\ lastset' = Recall(r)

FlushStoreFails ==
    \E r \in {flush(StoreFailing)} :
       /\ r.err = "LevelDBError"
       /\ Install(r)
       /\ last' = Last("flush", r)
       /\ Track(r, {}, {})
       /\ demo' = -1
       /\ lastset' = Recall(r)

FaultValues == {9} \cup FloatValues

\* Two keys live in this cache: a failed operation leaves a key in both
\* tiers, or a record without its key, and every such combination of three
\* keys is out of reach.  A set that fails may name any key.
FaultKeys == {1, 2}

FaultNext ==
    \/ \E key \in FaultKeys \cup NonStringKeys, value \in FaultValues : SetItem(key, value)
    \/ \E key \in FaultKeys : GetItem(key)
    \/ \E key \in FaultKeys, default \in Values : Get(key, default)
    \/ \E key \in FaultKeys : DelItem(key)
    \/ \E key \in FaultKeys : Contains(key)
    \/ \E ramonly \in BOOLEAN : Items(ramonly)
    \/ \E ramonly \in BOOLEAN : IterKeys(ramonly)
    \/ \E ramonly \in BOOLEAN : IterValues(ramonly)
    \/ \E ramonly \in BOOLEAN : Clear(ramonly)
    \/ Flush
    \/ \E newram \in 1..MaxRam, newdb \in 1..MaxDb, cleardb \in BOOLEAN :
          Reopen(newram, newdb, cleardb)
    \/ \E key \in Keys, value \in FaultValues : SetItemStoreFails(key, value)
    \/ \E key \in FaultKeys : GetItemStoreFails(key)
    \/ FlushStoreFails

FaultSpec == Init /\ [][FaultNext]_vars

-----------------------------------------------------------------------------
(* Properties.  A property of an operation is stated of its outcome in     *)
(* every reachable state; Then(r) is the cache the next operation finds.   *)

RamKeys == LruKeys(ramcache)

DbKeys == LruKeys(dbcache)

AllKeys == Keys \cup DemoKeys

Then(r) == [r.st EXCEPT !.lost = {}, !.putfails = FALSE, !.raised = ""]

SameCache(st) == st.ram = ramcache /\ st.db = dbcache /\ st.ldb = ldb

\* C1: after any sequence of operations no key is in both the ramcache and
\* the dbcache.
C1_Disjoint == RamKeys \cap DbKeys = {}

C1_Witness == ramcache # <<>> /\ dbcache # <<>> /\ last.op = "set"

\* C2: after every operation the keys with a record in the store are exactly
\* the keys of the dbcache.
C2_StoreIsGhost == DOMAIN ldb = DbKeys

C2_Witness == Len(dbcache) = 2 /\ ramcache # <<>> /\ last.op = "getitem" /\ last.ok

\* C3: after every operation the ramcache holds at most ramsize entries and
\* the dbcache at most dbsize.
C3_Capacity == Len(ramcache) <= ramsize /\ Len(dbcache) <= dbsize

\* three sets on a fresh cache of capacities 1 and 1: the third overflows
\* both tiers
C3_Witness == demo = 3 /\ ramsize = 1 /\ dbsize = 1 /\ ~clean

\* C4: in any reachable state, get(k) right after set(k, v) returns v,
\* whatever tier k was in and whether or not the set evicted anything.
C4_SetThenGet ==
    \A k \in AllKeys, v \in Values :
        LET r == getitem(Then(setitem(Cur, k, v)), k)
        IN r.ok /\ r.ret = v

\* three sets on a fresh cache of capacities 2 and 1: the third moves key 1
\* to the dbcache
C4_Witness == last.op = "set" /\ demo = 3 /\ ramsize = 2 /\ dbsize = 1 /\ Len(dbcache) = 1

\* C5: delete(k) of a key that is in the ramcache or in the dbcache succeeds:
\* afterwards contains(k) is false, size() is one less and k has no record.
C5_DeleteRemoves ==
    [][\A k \in AllKeys :
          (last'.op = "del" /\ contains(Cur, k) /\ DelItem(k)) =>
              /\ last'.ok
              /\ ~contains(Cur, k)'
              /\ len(Cur)' = len(Cur) - 1
              /\ ~LdbHas(ldb', k)]_vars

\* C6: get(k) and delete(k) of a key in neither tier raise KeyError and leave
\* ramcache, dbcache and the store as they were; get(k, default) returns the
\* default; contains(k) never raises.
C6_MissRaises ==
    /\ \A k \in AllKeys :
          ~contains(Cur, k) =>
              /\ ~getitem(Cur, k).ok /\ SameCache(getitem(Cur, k).st)
              /\ ~delitem(Cur, k).ok /\ SameCache(delitem(Cur, k).st)
              /\ \A d \in Values : get(Cur, k, d).ok /\ get(Cur, k, d).ret = d
    /\ last.op \in {"contains", "get"} => last.ok

C6_Witness == last.op = "getitem" /\ ~last.ok /\ ramcache # <<>> /\ dbcache # <<>>

\* C7 as claimed: after flush() the ramcache is empty and every key that was
\* in it is retrievable by get with the value it had.
C7_FlushKeepsAll ==
    [][(last'.op = "flush" /\ Flush) =>
          /\ ramcache' = <<>>
          /\ \A k \in AllKeys, v \in Values :
                (LruHas(ramcache, k) /\ LruPeek(ramcache, k) = v) =>
                    (getitem(Cur, k).ok /\ getitem(Cur, k).ret = v)']_vars

\* C7 as amended: after flush() the ramcache is empty; the dbsize least
\* recently used keys of the ramcache (all of them when it held at most dbsize)
\* are retrievable by get with the value they had, and the others, dropped by
\* the dbcache's eviction during the flush, are in neither tier.
C7_FlushKeepsLast ==
    LET after == Then(flush(Cur))
    IN /\ after.ram = <<>>
       /\ \A i \in 1..Len(ramcache) :
             IF i > Len(ramcache) - dbsize
             THEN LET r == getitem(after, ramcache[i].key)
                  IN r.ok /\ r.ret = ramcache[i].value
             ELSE ~contains(after, ramcache[i].key)

C7_Witness == last.op = "flush" /\ dbcache # <<>> /\ clean /\ live # {}

\* C8: a set of a key in neither tier into a full ramcache moves exactly the
\* least recently used key of the ramcache to the front of the dbcache, and
\* drops exactly the least recently used key of a full dbcache with its
\* record; with ramsize = dbsize = 2, setting '1' .. '5' on an empty cache
\* leaves ramcache {'4','5'}, dbcache {'3','2'} and no record of '1'.
C8_Cascade ==
    /\ (demo = 5 /\ ramsize = DemoRamsize /\ dbsize = DemoDbsize) =>
          /\ RamKeys = {4, 5}
          /\ DbKeys = {3, 2}
          /\ ~LdbHas(ldb, 1)
    /\ \A k \in AllKeys, v \in Values :
          (~contains(Cur, k) /\ Len(ramcache) = ramsize) =>
              LET after == setitem(Cur, k, v).st
                  old == ramcache[Len(ramcache)]
                  dropped == IF Len(dbcache) = dbsize
                             THEN {dbcache[Len(dbcache)].key} ELSE {}
              IN /\ LruKeys(after.ram) = (RamKeys \ {old.key}) \cup {k}
                 /\ after.db[1].key = old.key
                 /\ LruKeys(after.db) = (DbKeys \cup {old.key}) \ dropped
                 /\ DOMAIN after.ldb = (DOMAIN ldb \cup {old.key}) \ dropped
                 /\ unmarshal(after.ldb[old.key]) = old.value
                 /\ \A j \in DOMAIN ldb \ dropped : after.ldb[j] = ldb[j]

C8_Witness == demo = 5 /\ ramsize = DemoRamsize /\ dbsize = DemoDbsize /\ last.op = "set"

\* C9: after any sequence of set, get, delete and flush on an empty cache in
\* which the dbcache evicted nothing, size() is the number of keys set and
\* not successfully deleted afterwards.
C9_Size == clean => len(Cur) = Cardinality(live)

C9_Witness == clean /\ last.op = "del" /\ last.ok /\ Cardinality(live) = 2 /\ dbcache # <<>>

\* C10: a cache reopened with cleardb=False and the same capacities starts
\* with an empty ramcache and a dbcache of exactly the keys that had a record,
\* and get returns for each the value of its record.
C10_Reopen ==
    LET after == Then(init(ldb, ramsize, dbsize, FALSE))
    IN /\ after.ram = <<>>
       /\ LruKeys(after.db) = DOMAIN ldb
       /\ \A k \in DOMAIN ldb :
             LET r == getitem(after, k)
             IN r.ok /\ r.ret = unmarshal(ldb[k])

C10_Witness == last.op = "init" /\ Len(dbcache) = 2 /\ dbsize = 2

\* C11: get(k) of a key of the dbcache returns the value decoded from its
\* record and leaves k at the front of the ramcache, out of the dbcache and
\* without a record; get(k) of a key of the ramcache returns its value and
\* only moves k to the front of the ramcache.
C11_GetMoves ==
    \A k \in AllKeys :
        LET r == getitem(Cur, k)
        IN /\ LruHas(dbcache, k) =>
                 /\ r.ok /\ r.ret = unmarshal(ldb[k])
                 /\ r.st.ram[1] = Entry(k, unmarshal(ldb[k]))
                 /\ ~LruHas(r.st.db, k)
                 /\ ~LdbHas(r.st.ldb, k)
           /\ LruHas(ramcache, k) =>
                 /\ r.ok /\ r.ret = LruPeek(ramcache, k)
                 /\ r.st.ram = <<Entry(k, LruPeek(ramcache, k))>> \o LruRemove(ramcache, k)
                 /\ r.st.db = dbcache
                 /\ r.st.ldb = ldb

C11_Witness ==
    /\ last.op = "getitem" /\ last.ok
    /\ Len(ramcache) = 2 /\ Len(dbcache) = 1 /\ clean /\ Cardinality(live) = 3

\* C16: clear(ramonly=False) leaves the ramcache, the dbcache and the store
\* empty and size() = 0; clear(ramonly=True) empties the ramcache and leaves
\* the dbcache and the store as they were.
C16_Clear ==
    /\ IsEmpty(clear(Cur, FALSE).st)
    /\ len(clear(Cur, FALSE).st) = 0
    /\ clear(Cur, TRUE).st.ram = <<>>
    /\ clear(Cur, TRUE).st.db = dbcache
    /\ clear(Cur, TRUE).st.ldb = ldb

C16_Witness == last.op = "clear" /\ ramcache = <<>> /\ Len(dbcache) = 2

\* C19: get(k) never discards a key: it leaves the set of keys of the two
\* tiers and size() as they were, and the dbcache evicts nothing.
C19_GetKeepsKeys ==
    \A k \in AllKeys :
        LET r == getitem(Cur, k)
        IN /\ LruKeys(r.st.ram) \cup LruKeys(r.st.db) = RamKeys \cup DbKeys
           /\ len(r.st) = len(Cur)
           /\ r.st.lost = {}

C19_Witness ==
    /\ last.op = "getitem" /\ last.ok
    /\ Len(ramcache) = ramsize /\ Len(dbcache) = dbsize /\ clean /\ ramsize = 1

\* C20: flush registers the keys of the ramcache from most to least recently
\* used: afterwards the dbcache holds them in reverse order in front of its
\* earlier keys, cut to dbsize, so the most recently used of them is the
\* first to be evicted.
C20_FlushOrder ==
    LET all == Reverse(LruKeySeq(ramcache)) \o LruKeySeq(dbcache)
        kept == IF Len(all) <= dbsize THEN Len(all) ELSE dbsize
    IN LruKeySeq(flush(Cur).st.db) = SubSeq(all, 1, kept)

C20_Witness ==
    /\ last.op = "flush" /\ dbsize = 2
    /\ Len(dbcache) = 2 /\ dbcache[1].key < dbcache[2].key /\ clean /\ Cardinality(live) = 2

\* C12: keys(), values(), items() and `in` leave both tiers (contents and
\* order) and the store as they were; they yield the ramcache's entries from
\* most to least recently used and then, unless ramonly, the dbcache's keys
\* in its order with the values decoded from their records.
C12_IterationFrame ==
    \A ramonly \in BOOLEAN :
          LET ramkeys == LruKeySeq(ramcache)
              dbkeys == IF ramonly THEN <<>> ELSE LruKeySeq(dbcache)
              ks == keys(Cur, ramonly)
              vs == values(Cur, ramonly)
              its == items(Cur, ramonly)
          IN /\ ks.st = Cur /\ vs.st = Cur /\ its.st = Cur
             /\ ks.ok /\ vs.ok /\ its.ok
             /\ ks.ret = ramkeys \o dbkeys
             /\ Len(vs.ret) = Len(ks.ret) /\ Len(its.ret) = Len(ks.ret)
             /\ \A i \in 1..Len(ks.ret) :
                   /\ its.ret[i] = <<ks.ret[i], vs.ret[i]>>
                   /\ vs.ret[i] = IF i <= Len(ramcache) THEN ramcache[i].value
                                  ELSE unmarshal(ldb[ks.ret[i]])

C12_Witness ==
    /\ last.op = "items" /\ last.ok
    /\ Len(ramcache) = 2 /\ dbcache # <<>>
    /\ ramcache[1].value # ramcache[2].value
    /\ ldb[dbcache[1].key] = <<1, 8>>

\* C13: set with a key that is no string raises TypeError and leaves both
\* tiers and the store as they were.
C13_InvalidKey ==
    \A k \in NonStringKeys, v \in Values :
        LET r == setitem(Cur, k, v)
        IN ~r.ok /\ r.err = "TypeError" /\ r.st = Cur

C13_Witness ==
    /\ last.op = "set" /\ last.err = "TypeError"
    /\ Len(ramcache) = ramsize /\ Len(dbcache) = dbsize

\* C17: a get(k) that succeeds returns the value of the latest set(k, .); a
\* set of a key of the dbcache takes the key out of the dbcache and deletes
\* its record, so that the old value is never read again.
C17_LatestValue ==
    /\ \A k \in AllKeys :
          LET r == getitem(Cur, k)
          IN r.ok => r.ret = lastset[k]
    /\ \A k \in DbKeys, v \in Values :
          LET r == setitem(Cur, k, v)
          IN r.ok /\ ~LruHas(r.st.db, k) /\ ~LdbHas(r.st.ldb, k)

C17_Witness ==
    /\ last.op = "getitem" /\ last.ok
    /\ ramcache # <<>> /\ dbcache # <<>>
    /\ lastset[ramcache[1].key] = 18
    /\ lastset[dbcache[1].key] = 9
    /\ ~clean

\* C14 as claimed: when unmarshal raises during get(k) of a key of the
\* dbcache, the error reaches the caller and k is still in the dbcache with
\* its record still in the store.
C14_DecodeFailureKeepsGhost ==
    \A k \in DbKeys :
        (LdbHas(ldb, k) /\ intRaises(ldb[k])) =>
            LET r == getitem(Cur, k)
            IN /\ ~r.ok /\ r.err = "ValueError"
               /\ LruHas(r.st.db, k)
               /\ LdbHas(r.st.ldb, k) /\ r.st.ldb[k] = ldb[k]

\* C15: when ldb.Put raises during the eviction from the ramcache that a set
\* or a get causes, the operation raises and the ramcache has the entries
\* and the order it had; a set of a new key into a full ramcache is such an
\* operation.
C15_StoreFailureKeepsRam ==
    \A k \in AllKeys :
        /\ \A v \in FaultValues :
              LET r == setitem(StoreFailing, k, v)
              IN /\ (Len(ramcache) = ramsize /\ ~LruHas(ramcache, k)) =>
                        r.err = "LevelDBError"
                 /\ r.err = "LevelDBError" => (~r.ok /\ r.st.ram = ramcache)
        /\ LET r == getitem(StoreFailing, k)
           IN r.err = "LevelDBError" => (~r.ok /\ r.st.ram = ramcache)

C15_Witness ==
    /\ last.op = "set" /\ last.err = "LevelDBError"
    /\ Len(ramcache) = 2 /\ ramcache[1].value # ramcache[2].value

\* C18 as claimed: in _onRemoveFromRam the value is written to the store
\* before the key is put in the dbcache: after no statement of the hook is
\* the evicted key in the dbcache without a record.
C18_RecordBeforeGhost ==
    Len(ramcache) = ramsize =>
        LET node == ramcache[Len(ramcache)]
            steps == onRemoveFromRamSteps(Cur, node.key, node.value)
        IN \A i \in 1..Len(steps) :
              LruHas(steps[i].db, node.key) => LdbHas(steps[i].ldb, node.key)

====
